---- MODULE Spec2Model ----
(***************************************************************************)
(* The copy-button injector of the MDX pipeline (rehypeCopyButton, in the  *)
(* vite configuration) as a state machine over document trees.             *)
(*                                                                         *)
(* A node is a record                                                      *)
(*   id           the identity of the JS object (input nodes are numbered  *)
(*                in document order, synthesized objects take fresh ids),  *)
(*   type         'element', 'text', 'comment', 'root'; "null" stands for  *)
(*                a child entry that is not a node object (null),          *)
(*   tagName, properties, value   as in hast,                              *)
(*   childrenKind "array" (node.children is an array), "undefined" (the    *)
(*                field is absent), "other" (a truthy non-array value),    *)
(*   children     the array, <<>> when childrenKind is not "array".        *)
(* properties is [className: sequence of strings, attrs: set of            *)
(* <<name, value>> pairs].                                                 *)
(***************************************************************************)
EXTENDS Naturals, Sequences, FiniteSets, TLC

VARIABLES
    blogPosts,        \* BlogContent: the posts, each [frameworks, defaultFramework]
    activeFrameworks, \* BlogContent: the state map, post -> framework id
    lastTab,          \* the tab click handled last: [kind, post, framework, called]
    tree,      \* the document tree the pipeline holds (the root object)
    input,     \* the tree as the parser produced it
    prev,      \* the tree as it was before the latest run of the injector
    nextId,    \* the identity the next allocated object takes
    runs,      \* completed calls of the transformer on this tree
    threw,     \* the latest call ended in a thrown TypeError
    visited,   \* ids visit was called with during the latest run, in order
    passes,    \* names of the passes that have run on the document, in order
    mounted,   \* the page component: "no", "yes" (effect ran), "cleaned"
    listeners, \* ids of the buttons handleCopyClick is attached to
    copied,    \* ids of the buttons whose classList holds 'copied'
    writes,    \* clipboard writes awaited: [act, button, text]
    timers,    \* setTimeout callbacks outstanding: [act, button, left]
    clipboard, \* <<>> or <<the text last written>>
    logged,    \* calls of console.error
    age,       \* per button, ms since its latest successful write (capped)
    nextAct,   \* number of the next activation (click)
    lastEvent  \* the event handled last: [kind, button, act]

treeVars == <<tree, input, prev, nextId, runs, threw, visited, passes>>

clientVars ==
    <<mounted, listeners, copied, writes, timers, clipboard, logged, age, nextAct, lastEvent>>

blogVars == <<blogPosts, activeFrameworks, lastTab>>

vars == <<treeVars, clientVars, blogVars>>

(***************************************************************************)
(* Bounds of the model.                                                    *)
(***************************************************************************)
MaxBlocks == 2   \* top-level blocks of a document
MaxNest == 2     \* block-quote nesting depth around a block
MaxRuns == 2     \* runs of the injector on one tree
MaxClicks == 3   \* activations of copy controls on one page
MaxPosts == 2    \* posts of the blog

(***************************************************************************)
(* Node constructors.                                                      *)
(***************************************************************************)
NoProps == [className |-> <<>>, attrs |-> {}]

Props(cls, attrs) == [className |-> cls, attrs |-> attrs]

Text(v) ==
    [id |-> 0, type |-> "text", tagName |-> "", properties |-> NoProps,
     value |-> v, childrenKind |-> "undefined", children |-> <<>>]

Comment(v) ==
    [id |-> 0, type |-> "comment", tagName |-> "", properties |-> NoProps,
     value |-> v, childrenKind |-> "undefined", children |-> <<>>]

El(tag, cls, kids) ==
    [id |-> 0, type |-> "element", tagName |-> tag, properties |-> Props(cls, {}),
     value |-> "", childrenKind |-> "array", children |-> kids]

Root(kids) ==
    [id |-> 0, type |-> "root", tagName |-> "", properties |-> NoProps,
     value |-> "", childrenKind |-> "array", children |-> kids]

\* a child entry that is no node object (null)
NullEntry ==
    [id |-> 0, type |-> "null", tagName |-> "", properties |-> NoProps,
     value |-> "", childrenKind |-> "undefined", children |-> <<>>]

\* an element whose children field is a truthy value that is not an array
BadChildren(tag) ==
    [id |-> 0, type |-> "element", tagName |-> tag, properties |-> NoProps,
     value |-> "", childrenKind |-> "other", children |-> <<>>]

(***************************************************************************)
(* extractTextFromNode: [text, threw].                                     *)
(***************************************************************************)
RECURSIVE extractTextFromNode(_)
RECURSIVE joinExtracted(_)
RECURSIVE joinDirectText(_)

joinDirectText(children) ==
    IF children = <<>> THEN ""
    ELSE (IF Head(children).type = "text" THEN Head(children).value ELSE "")
             \o joinDirectText(Tail(children))

\* variant: the text children of the node only, nested elements not entered
extractDirectText(node) ==
    IF node.type = "text" THEN [text |-> node.value, threw |-> FALSE]
    ELSE [text |-> joinDirectText(node.children), threw |-> FALSE]

\* node.children.map(extractTextFromNode).join('')
joinExtracted(children) ==
    IF children = <<>> THEN [text |-> "", threw |-> FALSE]
    ELSE LET h == extractTextFromNode(Head(children)) IN
         IF h.threw THEN [text |-> "", threw |-> TRUE]
         ELSE LET t == joinExtracted(Tail(children)) IN
              [text |-> h.text \o t.text, threw |-> t.threw]

extractTextFromNode(node) ==
    IF node.type = "null" THEN [text |-> "", threw |-> TRUE]
    ELSE IF node.type = "text" THEN [text |-> node.value, threw |-> FALSE]
    ELSE IF node.childrenKind = "other" THEN [text |-> "", threw |-> TRUE]
    ELSE IF node.childrenKind = "array" THEN joinExtracted(node.children)
    ELSE [text |-> "", threw |-> FALSE]

(***************************************************************************)
(* The object literals of visit.                                           *)
(***************************************************************************)
SvgAttrs ==
    {<<"width", "16">>, <<"height", "16">>, <<"viewBox", "0 0 24 24">>,
     <<"fill", "none">>, <<"stroke", "currentColor">>, <<"strokeWidth", "2">>,
     <<"strokeLinecap", "round">>, <<"strokeLinejoin", "round">>}

\* an element literal written without a children field
Leaf(id, tag, attrs) ==
    [id |-> id, type |-> "element", tagName |-> tag, properties |-> Props(<<>>, attrs),
     value |-> "", childrenKind |-> "undefined", children |-> <<>>]

Lit(id, tag, cls, attrs, kids) ==
    [id |-> id, type |-> "element", tagName |-> tag, properties |-> Props(cls, attrs),
     value |-> "", childrenKind |-> "array", children |-> kids]

copyIcon(id) ==
    Lit(id, "svg", <<"copy-icon">>, SvgAttrs,
        << Leaf(id + 1, "rect", {<<"width", "14">>, <<"height", "14">>, <<"x", "8">>,
                                 <<"y", "8">>, <<"rx", "2">>, <<"ry", "2">>}),
           Leaf(id + 2, "path",
                {<<"d", "m4 16c-1.1 0-2-.9-2-2V4c0-1.1.9-2 2-2h10c1.1 0 2 .9 2 2">>}) >>)

\* variant: the check icon emitted without the class that hides it
checkIconShown(id) ==
    Lit(id, "svg", <<"check-icon">>, SvgAttrs,
        << Leaf(id + 1, "polyline", {<<"points", "20,6 9,17 4,12">>}) >>)

checkIcon(id) ==
    Lit(id, "svg", <<"check-icon", "hidden">>, SvgAttrs,
        << Leaf(id + 1, "polyline", {<<"points", "20,6 9,17 4,12">>}) >>)

copyButton(codeText, id) ==
    Lit(id, "button", <<"copy-code-button">>,
        {<<"data-code", codeText>>, <<"title", "Copy code">>},
        << copyIcon(id + 1), checkIcon(id + 4) >>)

\* variant: the control placed before the block
containerControlFirst(node, button, id) ==
    Lit(id, "div", <<"code-block-container", "group">>, {}, <<button, node>>)

\* variant: the wrapped pre is given a class of its own
containerMarksPre(node, button, id) ==
    Lit(id, "div", <<"code-block-container", "group">>, {},
        <<[node EXCEPT !.properties.className = @ \o <<"has-copy-button">>], button>>)

container(node, button, id) ==
    Lit(id, "div", <<"code-block-container", "group">>, {}, <<node, button>>)

\* objects one wrapped block allocates: button, two svg, rect, path, polyline, div
NewObjects == 7

(***************************************************************************)
(* visit: [node, ret, next, threw, log].  node is the visited object as    *)
(* the call leaves it (visit assigns node.children in place), ret is the   *)
(* value the call returns, next the allocation counter after the call, log *)
(* the ids visit was called with.                                          *)
(***************************************************************************)
\* variant: the tag name not tested
IsAnyElement(node) == node.type = "element"

IsPre(node) == node.type = "element" /\ node.tagName = "pre"

IsCode(child) == child.type = "element" /\ child.tagName = "code"

RECURSIVE findIn(_)
RECURSIVE findFirstElement(_)

\* variant: the predicate tests the type only, any element child is taken
findFirstElement(children) ==
    IF children = <<>> THEN [found |-> FALSE, threw |-> FALSE, code |-> NullEntry]
    ELSE IF Head(children).type = "null"
         THEN [found |-> FALSE, threw |-> TRUE, code |-> NullEntry]
    ELSE IF Head(children).type = "element"
         THEN [found |-> TRUE, threw |-> FALSE, code |-> Head(children)]
    ELSE findFirstElement(Tail(children))

\* variant: the last code child is taken
findLastCode(children) ==
    LET idx == {i \in 1..Len(children) :
                   children[i].type = "element" /\ children[i].tagName = "code"} IN
    IF idx = {} THEN [found |-> FALSE, threw |-> FALSE, code |-> NullEntry]
    ELSE [found |-> TRUE, threw |-> FALSE,
          code |-> children[CHOOSE i \in idx : \A j \in idx : j <= i]]

\* Array.prototype.find with the predicate of lines 20-22: [found, threw, code]
findIn(children) ==
    IF children = <<>> THEN [found |-> FALSE, threw |-> FALSE, code |-> NullEntry]
    ELSE IF Head(children).type = "null"
         THEN [found |-> FALSE, threw |-> TRUE, code |-> NullEntry]
    ELSE IF IsCode(Head(children))
         THEN [found |-> TRUE, threw |-> FALSE, code |-> Head(children)]
    ELSE findIn(Tail(children))

\* node.children?.find(...)
findCode(node) ==
    IF node.childrenKind = "undefined"
    THEN [found |-> FALSE, threw |-> FALSE, code |-> NullEntry]
    ELSE IF node.childrenKind = "other"
    THEN [found |-> FALSE, threw |-> TRUE, code |-> NullEntry]
    ELSE findIn(node.children)

Thrown(node, next, log) ==
    [node |-> node, ret |-> node, next |-> next, threw |-> TRUE, log |-> log]

RECURSIVE visit(_, _)
RECURSIVE mapVisit(_, _)
RECURSIVE visitEach(_, _)

\* visit applied to each child in turn
visitEach(children, next) ==
    IF children = <<>>
    THEN [nodes |-> <<>>, rets |-> <<>>, next |-> next, threw |-> FALSE, log |-> <<>>]
    ELSE LET h == visit(Head(children), next)
             t == visitEach(Tail(children), h.next) IN
         [nodes |-> <<h.node>> \o t.nodes, rets |-> <<h.ret>> \o t.rets,
          next |-> t.next, threw |-> FALSE, log |-> h.log \o t.log]

\* variant: the children of the wrapped pre are visited and replaced as well
wrapDescending(node, codeElement, next) ==
    LET x == extractTextFromNode(codeElement)
        m == visitEach(node.children, next + NewObjects)
        n == [node EXCEPT !.children = m.rets] IN
    [node |-> n,
     ret |-> container(n, copyButton(x.text, next), next + NewObjects - 1),
     next |-> m.next, threw |-> FALSE, log |-> <<node.id>> \o m.log]

\* variant: the text taken from the pre element instead of its code child
wrapTextOfPre(node, codeElement, next) ==
    LET x == extractTextFromNode(node) IN
    IF x.threw THEN Thrown(node, next, <<node.id>>)
    ELSE [node |-> node,
          ret |-> container(node, copyButton(x.text, next), next + NewObjects - 1),
          next |-> next + NewObjects, threw |-> FALSE, log |-> <<node.id>>]

\* lines 24-113: the branch taken when a code element was found
wrap(node, codeElement, next) ==
    LET x == extractTextFromNode(codeElement) IN
    IF x.threw THEN Thrown(node, next, <<node.id>>)
    ELSE [node |-> node,
          ret |-> container(node, copyButton(x.text, next), next + NewObjects - 1),
          next |-> next + NewObjects, threw |-> FALSE, log |-> <<node.id>>]

RECURSIVE mapVisitFlat(_, _)
\* variant: the children are tested and wrapped but not descended into
mapVisitFlat(children, next) ==
    IF children = <<>>
    THEN [nodes |-> <<>>, rets |-> <<>>, next |-> next, threw |-> FALSE, log |-> <<>>]
    ELSE LET c == Head(children)
             f == findCode(c)
             h == IF IsPre(c) /\ f.found THEN wrap(c, f.code, next)
                  ELSE [node |-> c, ret |-> c, next |-> next, threw |-> FALSE,
                        log |-> <<c.id>>]
             t == mapVisitFlat(Tail(children), h.next) IN
         [nodes |-> <<h.node>> \o t.nodes, rets |-> <<h.ret>> \o t.rets,
          next |-> t.next, threw |-> FALSE, log |-> h.log \o t.log]

\* variant: the children are visited once, and what they returned is tested
\* and wrapped a second time
mapVisitAgain(children, next) ==
    LET m == visitEach(children, next)
        f == mapVisitFlat(m.rets, m.next) IN
    [nodes |-> m.nodes, rets |-> f.rets, next |-> f.next, threw |-> FALSE,
     log |-> m.log \o f.log]

\* node.children.map(visit): the children objects as left, the values returned
mapVisit(children, next) ==
    IF children = <<>>
    THEN [nodes |-> <<>>, rets |-> <<>>, next |-> next, threw |-> FALSE, log |-> <<>>]
    ELSE LET h == visit(Head(children), next) IN
         IF h.threw
         THEN [nodes |-> <<h.node>> \o Tail(children), rets |-> <<>>,
               next |-> h.next, threw |-> TRUE, log |-> h.log]
         ELSE LET t == mapVisit(Tail(children), h.next) IN
              [nodes |-> <<h.node>> \o t.nodes, rets |-> <<h.ret>> \o t.rets,
               next |-> t.next, threw |-> t.threw, log |-> h.log \o t.log]

\* variant: only the element children are kept and visited
descendElementsOnly(node, next) ==
    LET m == mapVisit(SelectSeq(node.children, LAMBDA c : c.type = "element"), next)
        n == [node EXCEPT !.children = m.rets] IN
    [node |-> n, ret |-> n, next |-> m.next, threw |-> FALSE, log |-> <<node.id>> \o m.log]

RECURSIVE spliced(_, _)
\* the values returned, each container made from id first on replaced by its children
spliced(rets, first) ==
    IF rets = <<>> THEN <<>>
    ELSE (IF Head(rets).id >= first /\ Head(rets).tagName = "div"
          THEN Head(rets).children ELSE <<Head(rets)>>) \o spliced(Tail(rets), first)

\* variant: the control becomes a sibling of the pre, no container is kept
descendSplicing(node, next) ==
    IF node.childrenKind # "array"
    THEN [node |-> node, ret |-> node, next |-> next, threw |-> FALSE, log |-> <<node.id>>]
    ELSE LET m == mapVisit(node.children, next)
             n == [node EXCEPT !.children = spliced(m.rets, next)] IN
         [node |-> n, ret |-> n, next |-> m.next, threw |-> FALSE,
          log |-> <<node.id>> \o m.log]

\* variant: a pre element without a code child is left as it is, not descended into
descendNotIntoPre(node, next) ==
    IF node.childrenKind # "array" \/ (node.type = "element" /\ node.tagName = "pre")
    THEN [node |-> node, ret |-> node, next |-> next, threw |-> FALSE, log |-> <<node.id>>]
    ELSE LET m == mapVisit(node.children, next)
             n == [node EXCEPT !.children = m.rets] IN
         [node |-> n, ret |-> n, next |-> m.next, threw |-> FALSE,
          log |-> <<node.id>> \o m.log]

\* lines 116-120
descend(node, next) ==
    IF node.childrenKind = "undefined"
    THEN [node |-> node, ret |-> node, next |-> next, threw |-> FALSE, log |-> <<node.id>>]
    ELSE IF node.childrenKind = "other"
    THEN Thrown(node, next, <<node.id>>)
    ELSE LET m == mapVisit(node.children, next) IN
         IF m.threw
         THEN Thrown([node EXCEPT !.children = m.nodes], m.next, <<node.id>> \o m.log)
         ELSE LET n == [node EXCEPT !.children = m.rets] IN
              [node |-> n, ret |-> n, next |-> m.next, threw |-> FALSE,
               log |-> <<node.id>> \o m.log]

visit(node, next) ==
    IF node.type = "null" THEN Thrown(node, next, <<node.id>>)
    ELSE IF IsPre(node)
    THEN LET f == findCode(node) IN
         IF f.threw THEN Thrown(node, next, <<node.id>>)
         ELSE IF f.found THEN wrap(node, f.code, next)
         ELSE descend(node, next)
    ELSE descend(node, next)

\* variant: the tree becomes what visit returned
transformerKeepingReturn(t, next) ==
    LET r == visit(t, next) IN
    [tree |-> r.ret, next |-> r.next, threw |-> r.threw, log |-> r.log]

\* the transformer (tree) => { visit(tree); }: the returned value is dropped
transformer(t, next) ==
    LET r == visit(t, next) IN
    [tree |-> r.node, next |-> r.next, threw |-> r.threw, log |-> r.log]

(***************************************************************************)
(* Input documents: the trees the earlier passes hand to the injector.     *)
(***************************************************************************)
RECURSIVE number(_, _)
RECURSIVE numberAll(_, _)

\* the children numbered from n on, in document order: [nodes, next]
numberAll(children, n) ==
    IF children = <<>> THEN [nodes |-> <<>>, next |-> n]
    ELSE LET h == number(Head(children), n)
             t == numberAll(Tail(children), h.next) IN
         [nodes |-> <<h.node>> \o t.nodes, next |-> t.next]

\* every object of the tree gets its own identity, in document order
number(node, n) ==
    LET k == numberAll(node.children, n + 1) IN
    [node |-> [node EXCEPT !.id = n, !.children = k.nodes], next |-> k.next]

SeqsUpTo(S, n) == UNION {[1..k -> S] : k \in 0..n}

Span(kids) == El("span", <<"hljs-keyword">>, kids)

Code(kids) == El("code", <<"hljs", "language-typescript">>, kids)

Pre(kids) == El("pre", <<>>, kids)

P(v) == El("p", <<>>, <<Text(v)>>)

\* a paragraph with inline code
InlineP(v) == El("p", <<>>, <<Text("use "), El("code", <<>>, <<Text(v)>>)>>)

\* what a code element holds after highlighting
CodeBodies ==
    { <<>>,
      <<Text("")>>,
      <<Text("a")>>,
      <<Text("const "), Span(<<Text("x")>>), Text(" = 1;")>>,
      <<Span(<<Span(<<Text("b")>>), Comment("c"), Span(<<>>)>>), Text("d")>> }

\* pre elements: fenced blocks, and what raw markup can produce
Pres ==
    {Pre(<<Code(b)>>) : b \in CodeBodies}
    \cup { Pre(<<>>),
           Pre(<<Text("t")>>),
           Pre(<<Span(<<Code(<<Text("s")>>)>>)>>),
           Pre(<<Text("t"), Code(<<Text("e")>>), Code(<<Text("f")>>)>>),
           Pre(<<Code(<<Text("g")>>), Pre(<<Code(<<Text("h")>>)>>)>>),
           Pre(<<Code(<<Text("i"), Pre(<<Code(<<Text("j")>>)>>)>>)>>),
           Pre(<<Text("t"), Pre(<<Code(<<Text("k")>>)>>)>>) }

RECURSIVE Nest(_, _)
\* a block under d block-quotes, between two paragraphs
Nest(d, b) ==
    IF d = 0 THEN b
    ELSE El("blockquote", <<>>, <<InlineP("q"), Nest(d - 1, b), P("r")>>)

NestSeeds == {Pre(<<Code(<<Text("n")>>)>>), Pre(<<Text("m")>>), P("z")}

Blocks ==
    {P("p"), InlineP("c")} \cup Pres \cup {Nest(d, b) : d \in 1..MaxNest, b \in NestSeeds}

\* pre elements a tree can have as its root
RootPres ==
    Pres \cup {Pre(<<Text("t"),
                     Pre(<<Code(<<Text("l")>>), Pre(<<Code(<<Text("o")>>)>>)>>)>>)}

\* a root holding blocks, or a tree whose root is itself a pre element
Documents ==
    {number(Root(s), 1) : s \in SeqsUpTo(Blocks, MaxBlocks)}
    \cup {number(p, 1) : p \in RootPres}

\* blocks that break the node model of hast
MalformedBlocks ==
    { NullEntry,
      BadChildren("div"),
      BadChildren("pre"),
      El("blockquote", <<>>, <<Pre(<<Code(<<Text("u")>>)>>), NullEntry>>),
      Pre(<<NullEntry, Code(<<Text("v")>>)>>),
      Pre(<<Code(<<Text("w"), NullEntry>>)>>),
      Pre(<<Code(<<BadChildren("span")>>)>>) }

SoundBlocks ==
    {P("p"), Pre(<<Code(<<Text("a")>>)>>), Pre(<<Text("t")>>)} \cup {Nest(1, b) : b \in NestSeeds}

MalformedDocuments ==
    {number(Root(s), 1) :
        s \in {q \in SeqsUpTo(SoundBlocks \cup MalformedBlocks, MaxBlocks) :
                  \E i \in 1..Len(q) : q[i] \in MalformedBlocks}}

(***************************************************************************)
(* The configured passes: mdx({ remarkPlugins, rehypePlugins }).  The      *)
(* processor applies the remark plugins, then the rehype plugins, each     *)
(* list in array order.                                                    *)
(***************************************************************************)
remarkPlugins == <<"remarkGfm">>

\* variant: the injector is listed before the raw-markup pass
rehypePluginsInjectorEarly ==
    <<"rehypeHighlight", "rehypeSlug", "rehypeCopyButton", "rehypeRaw">>

rehypePlugins == <<"rehypeHighlight", "rehypeSlug", "rehypeRaw", "rehypeCopyButton">>

Passes == remarkPlugins \o rehypePlugins

\* trees a pass of the libraries can hand on
PipelineDocuments ==
    {number(Root(s), 1) : s \in SeqsUpTo(Blocks, 1)} \cup {number(p, 1) : p \in RootPres}

(***************************************************************************)
(* BlogContent: the posts and their framework tabs.                        *)
(***************************************************************************)
\* allFrameworks, with the availability of vue and angular left open
allFrameworks(vue, angular) ==
    << [id |-> "react", available |-> TRUE],
       [id |-> "vue", available |-> vue],
       [id |-> "angular", available |-> angular] >>

\* posts: only react, react and vue, or all frameworks
Posts(all) ==
    {[frameworks |-> f, defaultFramework |-> d] :
        f \in {<<all[1]>>, <<all[1], all[2]>>, all}, d \in {"react", "vue"}}

\* blogPosts: the posts of the source are <<only react, default react>>
BlogConfigs ==
    UNION {SeqsUpTo(Posts(allFrameworks(v, a)), MaxPosts) : v \in BOOLEAN, a \in BOOLEAN}

\* blogPosts.reduce(...): every post starts at its defaultFramework
initialFrameworks(posts) == [i \in 1..Len(posts) |-> posts[i].defaultFramework]

\* setActiveFrameworks((prev) => ({ ...prev, [postId]: framework }))
handleFrameworkChange(map, postId, framework) == [map EXCEPT ![postId] = framework]

\* variant: the tab calls onFrameworkChange whatever the availability
onClickUnguarded(map, postId, framework) ==
    [called |-> TRUE, map |-> handleFrameworkChange(map, postId, framework.id)]

\* onClick={() => framework.available && onFrameworkChange(framework.id)}
onClick(map, postId, framework) ==
    IF framework.available
    THEN [called |-> TRUE, map |-> handleFrameworkChange(map, postId, framework.id)]
    ELSE [called |-> FALSE, map |-> map]

\* ArticleTabs returns null for a post with at most one framework
TabsRendered(post) == Len(post.frameworks) > 1

NoTab == [kind |-> "none", post |-> 0, framework |-> "", called |-> FALSE]

(***************************************************************************)
(* The state machine.                                                      *)
(***************************************************************************)
\* the document as the parser produced it, no pass run yet
StartTree(d) ==
    /\ tree = d.node
    /\ input = d.node
    /\ prev = d.node
    /\ nextId = d.next
    /\ runs = 0
    /\ threw = FALSE
    /\ visited = <<>>
    /\ passes = <<>>

\* the page before the effect has run
StartClient ==
    /\ mounted = "no"
    /\ listeners = {}
    /\ copied = {}
    /\ writes = {}
    /\ timers = {}
    /\ clipboard = <<>>
    /\ logged = 0
    /\ age = [b \in {} |-> 0]
    /\ nextAct = 1
    /\ lastEvent = [kind |-> "none", button |-> 0, act |-> 0]

Start(d) ==
    /\ StartTree(d)
    /\ StartClient
    /\ blogPosts = <<>>
    /\ activeFrameworks = initialFrameworks(<<>>)
    /\ lastTab = NoTab

Init == \E d \in Documents : Start(d)

InitMalformed == \E d \in MalformedDocuments : Start(d)

\* one run of the pass on the tree the pipeline holds; a thrown error ends
\* the compilation of the document
Transform ==
    /\ runs < MaxRuns
    /\ ~threw
    /\ LET r == transformer(tree, nextId) IN
       /\ tree' = r.tree
       /\ nextId' = r.next
       /\ threw' = r.threw
       /\ visited' = r.log
    /\ prev' = tree
    /\ runs' = runs + 1
    /\ UNCHANGED <<input, passes, clientVars, blogVars>>

Next == Transform

Spec == Init /\ [][Next]_vars

\* BlogContent is rendered: useState(blogPosts.reduce(...))
InitBlog ==
    \E posts \in BlogConfigs :
        /\ StartTree(number(Root(<<>>), 1))
        /\ StartClient
        /\ blogPosts = posts
        /\ activeFrameworks = initialFrameworks(posts)
        /\ lastTab = NoTab

\* a click on the tab of framework k of post i
TabClick(i, k) ==
    /\ i \in 1..Len(blogPosts)
    /\ TabsRendered(blogPosts[i])
    /\ k \in 1..Len(blogPosts[i].frameworks)
    /\ LET framework == blogPosts[i].frameworks[k]
           r == onClick(activeFrameworks, i, framework) IN
       /\ activeFrameworks' = r.map
       /\ lastTab' = [kind |-> "click", post |-> i, framework |-> framework.id,
                      called |-> r.called]
    /\ UNCHANGED <<treeVars, clientVars, blogPosts>>

NextBlog == \E i \in 1..Len(blogPosts) : \E k \in 1..Len(blogPosts[i].frameworks) : TabClick(i, k)

SpecBlog == InitBlog /\ [][NextBlog]_vars

InitPipeline == \E d \in PipelineDocuments : Start(d)

\* the next configured pass is one of the libraries': it hands on some tree
LibraryPass ==
    /\ Len(passes) < Len(Passes)
    /\ Passes[Len(passes) + 1] # "rehypeCopyButton"
    /\ passes' = Append(passes, Passes[Len(passes) + 1])
    /\ \E d \in PipelineDocuments :
           /\ tree' = d.node
           /\ nextId' = d.next
    /\ UNCHANGED <<input, prev, runs, threw, visited, clientVars, blogVars>>

\* the next configured pass is the injector
InjectorPass ==
    /\ Len(passes) < Len(Passes)
    /\ Passes[Len(passes) + 1] = "rehypeCopyButton"
    /\ passes' = Append(passes, Passes[Len(passes) + 1])
    /\ LET r == transformer(tree, nextId) IN
       /\ tree' = r.tree
       /\ nextId' = r.next
       /\ threw' = r.threw
       /\ visited' = r.log
    /\ prev' = tree
    /\ runs' = runs + 1
    /\ UNCHANGED <<input, clientVars, blogVars>>

NextPipeline == LibraryPass \/ InjectorPass

SpecPipeline == InitPipeline /\ [][NextPipeline]_vars

SpecMalformed == InitMalformed /\ [][Next]_vars

(***************************************************************************)
(* Vocabulary of the properties.                                           *)
(***************************************************************************)
PreElement(n) == n.type = "element" /\ n.tagName = "pre"

CodeElement(n) == n.type = "element" /\ n.tagName = "code"

RECURSIVE Paths(_)
\* the positions of a tree: sequences of child indices from the root
Paths(n) ==
    {<<>>} \cup UNION {{<<i>> \o q : q \in Paths(n.children[i])} : i \in 1..Len(n.children)}

RECURSIVE At(_, _)
At(n, p) == IF p = <<>> THEN n ELSE At(n.children[Head(p)], Tail(p))

RECURSIVE NodeSeq(_)
RECURSIVE NodeSeqAll(_)
NodeSeqAll(children) ==
    IF children = <<>> THEN <<>> ELSE NodeSeq(Head(children)) \o NodeSeqAll(Tail(children))

\* the nodes of a tree in document order
NodeSeq(n) == <<n>> \o NodeSeqAll(n.children)

NodeSet(t) == LET s == NodeSeq(t) IN {s[i] : i \in 1..Len(s)}

IdSeq(t) == LET s == NodeSeq(t) IN [i \in 1..Len(s) |-> s[i].id]

Ids(t) == LET s == NodeSeq(t) IN {s[i].id : i \in 1..Len(s)}

RECURSIVE ConcatValues(_)
ConcatValues(nodes) ==
    IF nodes = <<>> THEN "" ELSE Head(nodes).value \o ConcatValues(Tail(nodes))

\* the payloads of the text nodes under n, in document order
LeafText(n) == ConcatValues(SelectSeq(NodeSeq(n), LAMBDA m : m.type = "text"))

ProperPrefixes(p) == {SubSeq(p, 1, k) : k \in 0..(Len(p) - 1)}

Parent(p) == SubSeq(p, 1, Len(p) - 1)

CodeChildren(n) == {i \in 1..Len(n.children) : CodeElement(n.children[i])}

PreWithCode(n) == PreElement(n) /\ CodeChildren(n) # {}

CodelessPre(n) == PreElement(n) /\ CodeChildren(n) = {}

FirstCode(n) == n.children[CHOOSE i \in CodeChildren(n) : \A j \in CodeChildren(n) : i <= j]

\* the pre elements with a code child the traversal comes to: not the root,
\* and under no other pre that has a code child
Reached(t, p) ==
    /\ p # <<>>
    /\ PreWithCode(At(t, p))
    /\ \A q \in ProperPrefixes(p) : ~PreWithCode(At(t, q))

UnderNonPre(t, p) == p # <<>> /\ \A q \in ProperPrefixes(p) : ~PreElement(At(t, q))

HasClass(n, c) == \E i \in 1..Len(n.properties.className) : n.properties.className[i] = c

IsContainer(n) == n.type = "element" /\ n.tagName = "div" /\ HasClass(n, "code-block-container")

IsCopyControl(n) == n.type = "element" /\ n.tagName = "button" /\ HasClass(n, "copy-code-button")

Attr(n, name) == {a[2] : a \in {b \in n.properties.attrs : b[1] = name}}

\* among nodes, the containers and copy controls whose identity is not in old
ContainersIn(nodes, old) == {c \in nodes : IsContainer(c) /\ c.id \notin old}

ControlsIn(nodes, old) == {b \in nodes : IsCopyControl(b) /\ b.id \notin old}

\* the containers of nc that hold the pre object b: children [b, a control of nb]
Wrappers(nc, nb, b) ==
    {c \in nc : Len(c.children) = 2 /\ c.children[1] = b /\ c.children[2] \in nb}

\* the containers and copy controls the latest run created
NewContainers == ContainersIn(NodeSet(tree), Ids(prev))

NewControls == ControlsIn(NodeSet(tree), Ids(prev))

WrappersOf(b) == Wrappers(NewContainers, NewControls, b)

(***************************************************************************)
(* C1 as stated: after a run every pre element of the tree that has a code *)
(* child is wrapped in exactly one new container whose children are the    *)
(* pre and a new copy control.  (Fails for a pre at the root and for a pre *)
(* inside a pre that has a code child.)                                    *)
(***************************************************************************)
C1_EveryPreWithCodeWrapped ==
    runs >= 1 =>
        LET nc == NewContainers
            nb == NewControls IN
        \A n \in NodeSet(prev) :
            PreWithCode(n) => Cardinality(Wrappers(nc, nb, n)) = 1

(***************************************************************************)
(* C1 amended: after a run every pre element with a code child that is not *)
(* the root and lies in no other pre with a code child sits, unchanged, as *)
(* first child of exactly one new div.code-block-container, whose children *)
(* are exactly [that pre, a new copy control], and that container stands   *)
(* at the position the pre had.                                            *)
(***************************************************************************)
C1_ReachedPreWrapped ==
    runs >= 1 =>
        LET nc == NewContainers
            nb == NewControls
            tp == Paths(tree) IN
        \A p \in Paths(prev) :
            Reached(prev, p) =>
                /\ Cardinality(Wrappers(nc, nb, At(prev, p))) = 1
                /\ p \in tp
                /\ At(tree, p) \in Wrappers(nc, nb, At(prev, p))

C1_Witness ==
    /\ runs = 1
    /\ \E p \in Paths(prev) :
        /\ Reached(prev, p)
        /\ p \in Paths(tree)
        /\ At(tree, p) \in WrappersOf(At(prev, p))

(***************************************************************************)
(* C2: the data-code attribute of every copy control a run creates is the  *)
(* concatenation, in document order, of the values of the text nodes under *)
(* the first code child of the pre it stands beside.                       *)
(***************************************************************************)
C2_DataCodeIsLeafText ==
    runs >= 1 =>
        \A c \in NewContainers :
            /\ Len(c.children) = 2
            /\ PreWithCode(c.children[1])
            /\ Attr(c.children[2], "data-code") = {LeafText(FirstCode(c.children[1]))}

C2_Witness ==
    /\ runs = 1
    /\ \E c \in NewContainers :
        /\ Len(c.children) = 2
        /\ PreWithCode(c.children[1])
        /\ \E i \in 1..Len(FirstCode(c.children[1]).children) :
               FirstCode(c.children[1]).children[i].type = "element"
        /\ Attr(c.children[2], "data-code") = {"const x = 1;"}

(***************************************************************************)
(* C3 as stated: a second run on a tree the injector has transformed       *)
(* leaves it unchanged (no pre inside a generated container is wrapped     *)
(* again).                                                                 *)
(***************************************************************************)
C3_SecondRunChangesNothing == runs >= 2 => tree = prev

(***************************************************************************)
(* C4: a run on a tree that holds no pre element returns the tree as it    *)
(* was: same nodes, same properties, same children in the same order.      *)
(***************************************************************************)
NoPre(t) == \A n \in NodeSet(t) : ~PreElement(n)

C4_NoPreNoChange == (runs >= 1 /\ NoPre(prev)) => tree = prev

C4_Witness ==
    /\ runs = 1
    /\ NoPre(prev)
    /\ \E n \in NodeSet(prev) : CodeElement(n)
    /\ \E p \in Paths(prev) : Len(p) >= 3
    /\ tree = prev

(***************************************************************************)
(* C5: a pre element without a code element child keeps its parent, its    *)
(* index in the parent's children and its properties through a run, and    *)
(* the run puts no container around it.                                    *)
(***************************************************************************)
\* where the objects of a tree stand: <<id, parent id, index>>, 0 at the root
Places(t) ==
    {<<At(t, p).id,
       IF p = <<>> THEN 0 ELSE At(t, Parent(p)).id,
       IF p = <<>> THEN 0 ELSE p[Len(p)]>> : p \in Paths(t)}

PlaceOf(places, id) == {x \in places : x[1] = id}

C5_CodelessPreStays ==
    runs >= 1 =>
        LET before == Places(prev)
            after == Places(tree)
            tn == NodeSet(tree)
            nc == NewContainers IN
        \A n \in NodeSet(prev) :
            CodelessPre(n) =>
                /\ PlaceOf(after, n.id) = PlaceOf(before, n.id)
                /\ \A m \in tn : m.id = n.id => m.properties = n.properties
                /\ \A c \in nc : \A i \in 1..Len(c.children) : c.children[i].id # n.id

C5_Witness ==
    /\ runs = 1
    /\ \E n \in NodeSet(prev) :
        /\ CodelessPre(n)
        /\ \E i \in 1..Len(n.children) : n.children[i].type = "text"
        /\ PlaceOf(Places(tree), n.id) = PlaceOf(Places(prev), n.id)
        /\ \A x \in PlaceOf(Places(prev), n.id) : x[2] # 0
    /\ NewContainers # {}

(***************************************************************************)
(* C6: a pre with a code child under non-pre ancestors only, at any depth, *)
(* is replaced at its position by a new container holding it; each of      *)
(* those ancestors keeps its number of children, and every subtree under   *)
(* them that holds no pre with a code child is left exactly as it was.     *)
(***************************************************************************)
HoldsPreWithCode(n) == \E m \in NodeSet(n) : PreWithCode(m)

C6_NestedFoundSiblingsKept ==
    runs >= 1 =>
        LET nc == NewContainers
            nb == NewControls
            tp == Paths(tree) IN
        \A p \in Paths(prev) :
            UnderNonPre(prev, p) =>
                /\ p \in tp
                /\ At(tree, Parent(p)).id = At(prev, Parent(p)).id
                /\ Len(At(tree, Parent(p)).children) = Len(At(prev, Parent(p)).children)
                /\ PreWithCode(At(prev, p)) => At(tree, p) \in Wrappers(nc, nb, At(prev, p))
                /\ ~HoldsPreWithCode(At(prev, p)) => At(tree, p) = At(prev, p)

C6_Witness ==
    /\ runs = 1
    /\ \E p \in Paths(prev) :
        /\ Len(p) >= 3
        /\ UnderNonPre(prev, p)
        /\ PreWithCode(At(prev, p))
        /\ At(tree, p) \in WrappersOf(At(prev, p))
        /\ \E i \in 1..Len(At(prev, Parent(p)).children) :
               /\ i # p[Len(p)]
               /\ At(tree, Parent(p)).children[i] = At(prev, Parent(p)).children[i]

(***************************************************************************)
(* C7: a run creates as many containers as copy controls as there are      *)
(* blocks it wraps, every container holds one block and one control of its *)
(* own, and the data-code of a control is the text of the code child of    *)
(* the block in its own container.                                         *)
(***************************************************************************)
WrappedBlocks == {At(prev, p) : p \in {q \in Paths(prev) : Reached(prev, q)}}

C7_OneControlPerBlock ==
    runs >= 1 =>
        LET nc == NewContainers
            nb == NewControls
            wb == WrappedBlocks
            k == Cardinality(wb) IN
        /\ Cardinality({c.id : c \in nc}) = k
        /\ Cardinality({b.id : b \in nb}) = k
        /\ Cardinality(nc) = k
        /\ Cardinality(nb) = k
        /\ \A c \in nc :
               /\ Len(c.children) = 2
               /\ c.children[1] \in wb
               /\ c.children[2] \in nb
               /\ Attr(c.children[2], "data-code") = {LeafText(FirstCode(c.children[1]))}
        /\ \A c, d \in nc :
               c # d => /\ c.children[1].id # d.children[1].id
                        /\ c.children[2].id # d.children[2].id

C7_Witness ==
    /\ runs = 1
    /\ Cardinality(WrappedBlocks) >= 2
    /\ Cardinality(NewContainers) = Cardinality(WrappedBlocks)
    /\ \E c, d \in NewContainers :
           Attr(c.children[2], "data-code") # Attr(d.children[2], "data-code")

(***************************************************************************)
(* C9: a run deletes no node and keeps the nodes it found in their         *)
(* document order; what it adds are containers and copy controls (with     *)
(* their icons) only.                                                      *)
(***************************************************************************)
SynthesizedTags == {"div", "button", "svg", "rect", "path", "polyline"}

C9_NoNodeDeleted ==
    runs >= 1 =>
        LET old == Ids(prev) IN
        /\ SelectSeq(IdSeq(tree), LAMBDA i : i \in old) = IdSeq(prev)
        /\ \A n \in NodeSet(tree) :
               n.id \notin old =>
                   /\ n.type = "element"
                   /\ n.tagName \in SynthesizedTags
                   /\ n.tagName = "div" => IsContainer(n)
                   /\ n.tagName = "button" => IsCopyControl(n)

C9_Witness ==
    /\ runs = 1
    /\ Len(IdSeq(tree)) > Len(IdSeq(prev))
    /\ \E n \in NodeSet(prev) : n.type = "text"
    /\ SelectSeq(IdSeq(tree), LAMBDA i : i \in Ids(prev)) = IdSeq(prev)

(***************************************************************************)
(* C10 as stated: on a tree with a malformed subtree (a child entry that   *)
(* is no node object, a children field that is no array) the run does not  *)
(* throw, the malformed subtrees stay as they were, and every well-formed  *)
(* pre with a code child the traversal comes to is wrapped.                *)
(***************************************************************************)
Malformed(n) == n.type = "null" \/ n.childrenKind = "other"

WellFormed(n) == \A m \in NodeSet(n) : ~Malformed(m)

C10_MalformedSkipped ==
    runs >= 1 =>
        /\ ~threw
        /\ \A p \in Paths(prev) :
               /\ p \in Paths(tree)
               /\ Malformed(At(prev, p)) => At(tree, p) = At(prev, p)
               /\ (Reached(prev, p) /\ WellFormed(At(prev, p)))
                      => At(tree, p) \in WrappersOf(At(prev, p))

(***************************************************************************)
(* C11: every button a run creates is a copy control: it carries the class *)
(* copy-code-button and not the class copied, one data-code attribute (the *)
(* extracted text, a plain string), title 'Copy code', and exactly two     *)
(* children: the svg.copy-icon, not hidden, then the svg.check-icon,       *)
(* hidden; and every new container holds such a button as second child.    *)
(***************************************************************************)
NewButtons == LET old == Ids(prev) IN
    {n \in NodeSet(tree) : n.type = "element" /\ n.tagName = "button" /\ n.id \notin old}

IdleIcon(n) ==
    n.type = "element" /\ n.tagName = "svg" /\ HasClass(n, "copy-icon") /\ ~HasClass(n, "hidden")

CopiedIcon(n) ==
    n.type = "element" /\ n.tagName = "svg" /\ HasClass(n, "check-icon") /\ HasClass(n, "hidden")

WellFormedControl(b) ==
    /\ HasClass(b, "copy-code-button")
    /\ ~HasClass(b, "copied")
    /\ Cardinality(Attr(b, "data-code")) = 1
    /\ Attr(b, "title") = {"Copy code"}
    /\ Len(b.children) = 2
    /\ IdleIcon(b.children[1])
    /\ CopiedIcon(b.children[2])

C11_ControlShape ==
    runs >= 1 =>
        LET nb == NewButtons IN
        /\ \A b \in nb : WellFormedControl(b)
        /\ \A c \in NewContainers : Len(c.children) = 2 /\ c.children[2] \in nb

C11_Witness ==
    /\ runs = 1
    /\ \E c \in NewContainers :
        /\ c.children[2] \in NewButtons
        /\ WellFormedControl(c.children[2])
        /\ Attr(c.children[2], "data-code") = {"const x = 1;"}

(***************************************************************************)
(* C17 as stated: in one run visit is called with every node of the tree   *)
(* exactly once.  (Fails: the nodes under a pre with a code child are not  *)
(* visited.)                                                               *)
(***************************************************************************)
Range(s) == {s[i] : i \in 1..Len(s)}

C17_EveryNodeVisitedOnce ==
    runs >= 1 =>
        /\ Len(visited) = Len(IdSeq(prev))
        /\ Range(visited) = Ids(prev)

(***************************************************************************)
(* C17 amended: in one run visit is called exactly once with every node    *)
(* that has no pre with a code child among its proper ancestors, and with  *)
(* no other node.                                                          *)
(***************************************************************************)
OutsideBlocks(t) ==
    {At(t, p).id :
        p \in {q \in Paths(t) : \A r \in ProperPrefixes(q) : ~PreWithCode(At(t, r))}}

C17_VisitedOnceOutsideBlocks ==
    runs >= 1 =>
        LET exp == OutsideBlocks(prev) IN
        /\ Range(visited) = exp
        /\ Len(visited) = Cardinality(exp)

C17_Witness ==
    /\ runs = 1
    /\ Range(visited) = OutsideBlocks(prev)
    /\ Len(visited) = Cardinality(OutsideBlocks(prev))
    /\ Len(visited) < Len(IdSeq(prev))
    /\ Len(visited) >= 4

(***************************************************************************)
(* C18: within one run visit is never called with an object the run        *)
(* created (container, control, icon), never twice with the same node - so *)
(* every wrapped pre is processed once - and the run ends after at most    *)
(* one call per node of the tree it was given.                             *)
(***************************************************************************)
C18_NoRevisit ==
    runs >= 1 =>
        LET old == Ids(prev) IN
        /\ Range(visited) \subseteq old
        /\ Cardinality(Range(visited)) = Len(visited)
        /\ Len(visited) <= Cardinality(old)
        /\ \A c \in NewContainers :
               /\ c.id \notin Range(visited)
               /\ c.children[2].id \notin Range(visited)
               /\ Cardinality({i \in 1..Len(visited) : visited[i] = c.children[1].id}) = 1

C18_Witness ==
    /\ runs = 2
    /\ NewContainers # {}
    /\ \E c \in NewContainers : c.children[1].id \in Range(visited)
    /\ Cardinality(Range(visited)) = Len(visited)
    /\ Range(visited) \subseteq Ids(prev)

(***************************************************************************)
(* C19: the pre found as first child of a new container is the pre of the  *)
(* tree before the run with its tag, properties and whole subtree (nested  *)
(* pre elements stay unwrapped); its former parent is now the parent of    *)
(* the container.                                                          *)
(***************************************************************************)
C19_PreNotMutated ==
    runs >= 1 =>
        LET tp == Paths(tree)
            before == NodeSet(prev) IN
        /\ \A p \in Paths(prev) :
               Reached(prev, p) =>
                   /\ p \in tp
                   /\ IsContainer(At(tree, p))
                   /\ Len(At(tree, p).children) >= 1
                   /\ At(tree, p).children[1] = At(prev, p)
                   /\ At(tree, Parent(p)).id = At(prev, Parent(p)).id
        /\ \A c \in NewContainers : Len(c.children) >= 1 /\ c.children[1] \in before

C19_Witness ==
    /\ runs = 1
    /\ \E p \in Paths(prev) :
        /\ Reached(prev, p)
        /\ \E n \in NodeSet(At(prev, p)) : n # At(prev, p) /\ PreWithCode(n)
        /\ At(tree, p).children[1] = At(prev, p)
        /\ At(tree, p) \in NewContainers

(***************************************************************************)
(* C20: every node visit was called with keeps the number of its children, *)
(* and at each index holds either the child it had there or a new          *)
(* container whose first child is the child it had there.                  *)
(***************************************************************************)
SameOrWrapped(after, before, nc) ==
    \/ after.id = before.id
    \/ /\ after \in nc
       /\ Len(after.children) >= 1
       /\ after.children[1].id = before.id

C20_ContainerTakesPosition ==
    runs >= 1 =>
        LET nc == NewContainers
            tn == NodeSet(tree) IN
        \A n \in NodeSet(prev) :
            n.id \in Range(visited) =>
                /\ \E m \in tn : m.id = n.id
                /\ \A m \in tn :
                       m.id = n.id =>
                           /\ Len(m.children) = Len(n.children)
                           /\ \A i \in 1..Len(n.children) :
                                  SameOrWrapped(m.children[i], n.children[i], nc)

C20_Witness ==
    /\ runs = 1
    /\ \E n \in NodeSet(prev) : \E m \in NodeSet(tree) :
        /\ m.id = n.id
        /\ n.id \in Range(visited)
        /\ Len(m.children) = Len(n.children)
        /\ \E i, j \in 1..Len(n.children) :
               /\ m.children[i] \in NewContainers
               /\ m.children[i].children[1].id = n.children[i].id
               /\ m.children[j].id = n.children[j].id

(***************************************************************************)
(* The page: the Index component's effect attaches handleCopyClick to the  *)
(* copy controls of the rendered document.  The rendered elements are the  *)
(* nodes of the transformed tree, with their classes and attributes.       *)
(***************************************************************************)
\* the delay given to setTimeout, in ms
CopiedMs == 2000

\* time passes in steps of half the delay
TickMs == CopiedMs \div 2

\* the blocks of the pages: a highlighted block nested in other markup, or
\* two blocks without text; each page ends with a plain block
PageBlocks ==
    { <<Nest(1, Pre(<<Code(<<Text("const "), Span(<<Text("x")>>), Text(" = 1;")>>)>>))>>,
      <<Pre(<<Code(<<Text("")>>)>>), Pre(<<Code(<<>>)>>)>> }

PageDocuments ==
    {number(Root(s \o <<Pre(<<Code(<<Text("a")>>)>>)>>), 1) : s \in PageBlocks}

\* document.querySelectorAll('.' + cls): ids of the elements carrying the class
querySelectorAll(t, cls) ==
    {n.id : n \in {m \in NodeSet(t) :
                      /\ m.type = "element"
                      /\ \E i \in 1..Len(m.properties.className) :
                             m.properties.className[i] = cls}}

\* variant: the attribute is looked up under the name data-clipboard-text
getOtherAttribute(t, b, name) ==
    LET vals == UNION {{a[2] : a \in {x \in n.properties.attrs : x[1] = "data-clipboard-text"}} :
                          n \in {m \in NodeSet(t) : m.id = b}} IN
    IF vals = {} THEN <<>> ELSE <<CHOOSE v \in vals : TRUE>>

\* button.getAttribute(name): <<>> for null, else <<value>>
getAttribute(t, b, name) ==
    LET vals == UNION {{a[2] : a \in {x \in n.properties.attrs : x[1] = name}} :
                          n \in {m \in NodeSet(t) : m.id = b}} IN
    IF vals = {} THEN <<>> ELSE <<CHOOSE v \in vals : TRUE>>

\* variant: only null is tested for
NotNull(a) == a # <<>>

\* if (codeText): neither null nor the empty string
Truthy(a) == a # <<>> /\ a[1] # ""

\* button.classList.add('copied')
addCopied(set, b) == set \cup {b}

\* variant: every control showing 'copied' is reset
removeCopiedEverywhere(set, b) == {}

\* button.classList.remove('copied')
removeCopied(set, b) == set \ {b}

\* variant: no timer is started
notScheduled(set, act, b) == set

\* setTimeout(() => {...}, 2000)
scheduled(set, act, b) == set \cup {[act |-> act, button |-> b, left |-> CopiedMs]}

\* variant: the catch block resets the control
resetOnFailure(set, b) == set \ {b}

\* catch (err) { console.error(...) }: the classes are not touched
afterFailure(set, b) == set

Event(kind, b, act) == [kind |-> kind, button |-> b, act |-> act]

InitClient ==
    \E d \in PageDocuments :
        LET r == transformer(d.node, d.next) IN
        /\ tree = r.tree
        /\ input = d.node
        /\ prev = d.node
        /\ nextId = r.next
        /\ runs = 1
        /\ threw = r.threw
        /\ visited = r.log
        /\ passes = Passes
        /\ mounted = "no"
        /\ listeners = {}
        /\ copied = {}
        /\ writes = {}
        /\ timers = {}
        /\ clipboard = <<>>
        /\ logged = 0
        /\ age = [b \in querySelectorAll(r.tree, "copy-code-button") |-> CopiedMs]
        /\ nextAct = 1
        /\ lastEvent = Event("none", 0, 0)
        /\ blogPosts = <<>>
        /\ activeFrameworks = initialFrameworks(<<>>)
        /\ lastTab = NoTab

\* useEffect: addEventListener('click', handleCopyClick) on every copy button
Mount ==
    /\ mounted = "no"
    /\ mounted' = "yes"
    /\ listeners' = querySelectorAll(tree, "copy-code-button")
    /\ lastEvent' = Event("mount", 0, 0)
    /\ UNCHANGED <<treeVars, blogVars, copied, writes, timers, clipboard, logged, age, nextAct>>

\* variant: the write is requested but not awaited, the class is added at once
ClickNotAwaiting(b) ==
    /\ b \in listeners
    /\ nextAct <= MaxClicks
    /\ LET codeText == getAttribute(tree, b, "data-code") IN
       /\ writes' = IF Truthy(codeText)
                    THEN writes \cup {[act |-> nextAct, button |-> b, text |-> codeText[1]]}
                    ELSE writes
       /\ copied' = IF Truthy(codeText) THEN addCopied(copied, b) ELSE copied
       /\ timers' = IF Truthy(codeText) THEN scheduled(timers, nextAct, b) ELSE timers
    /\ nextAct' = nextAct + 1
    /\ lastEvent' = Event("click", b, nextAct)
    /\ UNCHANGED <<treeVars, blogVars, mounted, listeners, clipboard, logged, age>>

\* handleCopyClick up to the await: the write is requested when codeText is truthy
Click(b) ==
    /\ b \in listeners
    /\ nextAct <= MaxClicks
    /\ LET codeText == getAttribute(tree, b, "data-code") IN
       writes' = IF Truthy(codeText)
                 THEN writes \cup {[act |-> nextAct, button |-> b, text |-> codeText[1]]}
                 ELSE writes
    /\ nextAct' = nextAct + 1
    /\ lastEvent' = Event("click", b, nextAct)
    /\ UNCHANGED <<treeVars, blogVars, mounted, listeners, copied, timers, clipboard, logged, age>>

\* the write succeeded: the rest of the try block runs
Written(w) ==
    /\ w \in writes
    /\ writes' = writes \ {w}
    /\ clipboard' = <<w.text>>
    /\ copied' = addCopied(copied, w.button)
    /\ timers' = scheduled(timers, w.act, w.button)
    /\ age' = [age EXCEPT ![w.button] = 0]
    /\ lastEvent' = Event("written", w.button, w.act)
    /\ UNCHANGED <<treeVars, blogVars, mounted, listeners, logged, nextAct>>

\* the write failed: the catch block runs
Failed(w) ==
    /\ w \in writes
    /\ writes' = writes \ {w}
    /\ logged' = logged + 1
    /\ copied' = afterFailure(copied, w.button)
    /\ lastEvent' = Event("failed", w.button, w.act)
    /\ UNCHANGED <<treeVars, blogVars, mounted, listeners, timers, clipboard, age, nextAct>>

\* a timer callback runs, at its time or later
Timeout(t) ==
    /\ t \in timers
    /\ t.left = 0
    /\ timers' = timers \ {t}
    /\ copied' = removeCopied(copied, t.button)
    /\ lastEvent' = Event("timeout", t.button, t.act)
    /\ UNCHANGED <<treeVars, blogVars, mounted, listeners, writes, clipboard, logged, age, nextAct>>

Least(a, b) == IF a <= b THEN a ELSE b

\* TickMs pass
Tick ==
    /\ \/ \E t \in timers : t.left > 0
       \/ \E b \in DOMAIN age : age[b] < CopiedMs
    /\ timers' = {[t EXCEPT !.left = IF @ >= TickMs THEN @ - TickMs ELSE 0] : t \in timers}
    /\ age' = [b \in DOMAIN age |-> Least(age[b] + TickMs, CopiedMs)]
    /\ lastEvent' = Event("tick", 0, 0)
    /\ UNCHANGED <<treeVars, blogVars, mounted, listeners, copied, writes, clipboard, logged, nextAct>>

\* variant: the cleanup leaves the listeners attached
CleanupKeepingListeners ==
    /\ mounted = "yes"
    /\ mounted' = "cleaned"
    /\ lastEvent' = Event("cleanup", 0, 0)
    /\ UNCHANGED <<treeVars, blogVars, listeners, copied, writes, timers, clipboard, logged, age, nextAct>>

\* the effect's cleanup: removeEventListener on the buttons found at mount
Cleanup ==
    /\ mounted = "yes"
    /\ mounted' = "cleaned"
    /\ listeners' = {}
    /\ lastEvent' = Event("cleanup", 0, 0)
    /\ UNCHANGED <<treeVars, blogVars, copied, writes, timers, clipboard, logged, age, nextAct>>

NextClient ==
    \/ Mount
    \/ \E b \in listeners : Click(b)
    \/ \E w \in writes : Written(w)
    \/ \E w \in writes : Failed(w)
    \/ \E t \in timers : Timeout(t)
    \/ Tick
    \/ Cleanup

SpecClient == InitClient /\ [][NextClient]_vars

\* the event loop runs every due timer callback, and time passes
SpecClientFair ==
    /\ InitClient
    /\ [][NextClient]_vars
    /\ WF_clientVars(Tick)
    /\ WF_clientVars(\E t \in timers : Timeout(t))

(***************************************************************************)
(* Vocabulary of the client properties.                                    *)
(***************************************************************************)
\* ids of the copy controls the injector emitted
ControlIds == {b.id : b \in NewControls}

\* the block a control was emitted for: first child of the control's container
BlockOf(nc, b) ==
    LET c == CHOOSE x \in nc : Len(x.children) = 2 /\ x.children[2].id = b IN
    c.children[1]

\* the text extracted from the code child of the control's block
BlockText(nc, b) == LeafText(FirstCode(BlockOf(nc, b)))

(***************************************************************************)
(* C12: the click listeners sit on exactly the controls the injector       *)
(* emitted; every clipboard write a click requests carries the text of the *)
(* clicked control's own block (the leaf text of its code child); a click  *)
(* on the control of a non-empty block requests such a write; and when a   *)
(* write completes the clipboard holds exactly that block's text.          *)
(***************************************************************************)
C12_ClipboardGetsBlockText ==
    LET nc == NewContainers IN
    /\ mounted = "yes" => listeners = ControlIds
    /\ \A w \in writes : w.text = BlockText(nc, w.button)
    /\ lastEvent.kind = "click" =>
           LET text == BlockText(nc, lastEvent.button) IN
           text # "" =>
               [act |-> lastEvent.act, button |-> lastEvent.button, text |-> text] \in writes
    /\ lastEvent.kind = "written" => clipboard = <<BlockText(nc, lastEvent.button)>>

\* the control of a block with nested highlighting was clicked and its text arrived
C12_Witness ==
    /\ lastEvent.kind = "written"
    /\ clipboard = <<"const x = 1;">>
    /\ Cardinality(ControlIds) = 2

(***************************************************************************)
(* C13: in every step, a control whose 'copied' class is added or removed  *)
(* is the control of the event handled in that step, the event is the      *)
(* completion of a clipboard write or the expiry of a timer, and that      *)
(* write or timer belongs to an activation of the same control.            *)
(***************************************************************************)
C13_OnlyOwnEventsToggle ==
    [][\A b \in (copied \ copied') \cup (copied' \ copied) :
           /\ lastEvent'.button = b
           /\ \/ /\ lastEvent'.kind = "written"
                 /\ \E w \in writes : w.act = lastEvent'.act /\ w.button = b
              \/ /\ lastEvent'.kind = "timeout"
                 /\ \E t \in timers : t.act = lastEvent'.act /\ t.button = b]_vars

\* one control has just reverted while another one still shows 'copied'
C13_Witness ==
    /\ lastEvent.kind = "timeout"
    /\ lastEvent.button \notin copied
    /\ Cardinality(copied) = 1
    /\ \E t \in timers : t.button \in copied

(***************************************************************************)
(* C14: a control stays in the 'copied' state for the whole 2000 ms after  *)
(* every successful activation of it: while less than 2000 ms have passed  *)
(* since the latest success on a control, the control shows 'copied'.      *)
(* (Fails: the timer of an earlier activation of the same control is never *)
(* cancelled and removes the class inside the later activation's period.)  *)
(***************************************************************************)
C14_CopiedForFullPeriod ==
    \A b \in DOMAIN age : age[b] < CopiedMs => b \in copied

\* ids of the copy controls of all the pages
PageControlIds ==
    UNION {LET t == transformer(d.node, d.next).tree IN
           {b.id : b \in ControlsIn(NodeSet(t), Ids(d.node))} : d \in PageDocuments}

(***************************************************************************)
(* C15: when timer callbacks run and time passes, every control that shows *)
(* 'copied' is eventually idle again; and whenever no clipboard write is   *)
(* pending and no timer is outstanding, no control shows 'copied'.         *)
(***************************************************************************)
C15_CopiedReverts ==
    /\ \A b \in PageControlIds : (b \in copied) ~> (b \notin copied)
    /\ [](writes = {} /\ timers = {} => copied = {})

\* after several activations the last timer has fired; nothing is pending
C15_Witness ==
    /\ lastEvent.kind = "timeout"
    /\ writes = {} /\ timers = {} /\ copied = {}
    /\ clipboard # <<>>
    /\ nextAct > 2

(***************************************************************************)
(* C16: the step that handles a failed clipboard write leaves the 'copied' *)
(* class of every control, the timers, the clipboard and the listeners as  *)
(* they were and logs exactly one error; and a click that follows a        *)
(* failure still requests the write of its block's text.                   *)
(***************************************************************************)
C16_FailureLeavesStateAlone ==
    [][/\ lastEvent'.kind = "failed" =>
              /\ copied' = copied
              /\ timers' = timers
              /\ clipboard' = clipboard
              /\ listeners' = listeners
              /\ mounted' = mounted
              /\ logged' = logged + 1
       /\ (lastEvent'.kind = "click" /\ logged > 0) =>
              LET text == BlockText(NewContainers, lastEvent'.button) IN
              text # "" => \E w \in writes' : w.act = lastEvent'.act /\ w.text = text]_vars

\* the first activation failed and was logged, the second one succeeded
C16_Witness ==
    /\ lastEvent.kind = "written"
    /\ lastEvent.act = 2
    /\ logged = 1
    /\ lastEvent.button \in copied

(***************************************************************************)
(* C21: for every block a run wraps whose pre has several code children,   *)
(* the data-code of its control is the leaf text of the first code child   *)
(* in child order; it is neither the text of any other child of the pre    *)
(* that carries text nor the text of the pre as a whole.                   *)
(***************************************************************************)
C21_FirstCodeChildOnly ==
    runs >= 1 =>
        \A c \in NewContainers :
            (Len(c.children) = 2 /\ Cardinality(CodeChildren(c.children[1])) > 1) =>
                LET pre == c.children[1]
                    first == CHOOSE i \in CodeChildren(pre) : \A j \in CodeChildren(pre) : i <= j
                    data == Attr(c.children[2], "data-code") IN
                /\ data = {LeafText(pre.children[first])}
                /\ \A k \in (1..Len(pre.children)) \ {first} :
                       LeafText(pre.children[k]) # "" => LeafText(pre.children[k]) \notin data
                /\ LeafText(pre) \notin data

\* a pre with a text child and two code children was wrapped
C21_Witness ==
    /\ runs = 1
    /\ \E c \in NewContainers :
        /\ Len(c.children) = 2
        /\ Cardinality(CodeChildren(c.children[1])) = 2
        /\ c.children[1].children[1].type = "text"
        /\ Attr(c.children[2], "data-code") = {"e"}

(***************************************************************************)
(* C22 as stated: after a run, every pre with a code child that lies       *)
(* anywhere below a pre without a code child is the first child of exactly *)
(* one new container, and no new container holds the code-less pre.        *)
(* (Fails for a pre with a code child that lies inside another pre with a  *)
(* code child: the traversal does not enter a pre it wraps.)               *)
(***************************************************************************)
C22_BelowCodelessPreWrapped ==
    runs >= 1 =>
        LET nc == NewContainers
            nb == NewControls
            ps == Paths(prev) IN
        \A p \in ps :
            CodelessPre(At(prev, p)) =>
                /\ \A c \in nc : \A i \in 1..Len(c.children) : c.children[i].id # At(prev, p).id
                /\ \A q \in ps :
                       (p \in ProperPrefixes(q) /\ PreWithCode(At(prev, q))) =>
                           Cardinality(Wrappers(nc, nb, At(prev, q))) = 1

(***************************************************************************)
(* C22 amended: after a run, every pre with a code child that lies below a *)
(* pre without a code child, and inside no other pre with a code child, is *)
(* the first child of exactly one new container, which stands where the    *)
(* pre stood; no new container holds the code-less pre.                    *)
(***************************************************************************)
C22_ReachedBelowCodelessPreWrapped ==
    runs >= 1 =>
        LET nc == NewContainers
            nb == NewControls
            ps == Paths(prev) IN
        \A p \in ps :
            CodelessPre(At(prev, p)) =>
                /\ \A c \in nc : \A i \in 1..Len(c.children) : c.children[i].id # At(prev, p).id
                /\ \A q \in ps :
                       (p \in ProperPrefixes(q) /\ Reached(prev, q)) =>
                           /\ Cardinality(Wrappers(nc, nb, At(prev, q))) = 1
                           /\ q \in Paths(tree)
                           /\ At(tree, q) \in Wrappers(nc, nb, At(prev, q))

\* a pre with a code child directly under a code-less pre was wrapped
C22_Witness ==
    /\ runs = 1
    /\ \E p \in Paths(prev), q \in Paths(prev) :
        /\ CodelessPre(At(prev, p))
        /\ Parent(q) = p
        /\ Reached(prev, q)
        /\ q \in Paths(tree)
        /\ At(tree, q) \in WrappersOf(At(prev, q))
        /\ At(tree, p).id = At(prev, p).id

\* the controls the injector emitted for blocks whose code child has no text
EmptyBlockControls(nc) ==
    {c.children[2] : c \in {x \in nc : /\ Len(x.children) = 2
                                      /\ PreWithCode(x.children[1])
                                      /\ LeafText(FirstCode(x.children[1])) = ""}}

(***************************************************************************)
(* C23: every pre of the page whose code child has empty text is wrapped   *)
(* in one container with a copy control whose data-code is the empty       *)
(* string; that control gets a click listener like the others, but no      *)
(* clipboard write and no timer ever belongs to it and it never shows      *)
(* 'copied'.                                                               *)
(***************************************************************************)
C23_EmptyBlockControlIsNoOp ==
    LET nc == NewContainers
        nb == NewControls IN
    /\ \A p \in Paths(prev) :
           (Reached(prev, p) /\ LeafText(FirstCode(At(prev, p))) = "") =>
               /\ Cardinality(Wrappers(nc, nb, At(prev, p))) = 1
               /\ \A c \in Wrappers(nc, nb, At(prev, p)) :
                      c.children[2] \in EmptyBlockControls(nc)
    /\ \A b \in EmptyBlockControls(nc) :
           /\ IsCopyControl(b)
           /\ Attr(b, "data-code") = {""}
           /\ mounted = "yes" => b.id \in listeners
           /\ b.id \notin copied
           /\ \A w \in writes : w.button # b.id
           /\ \A t \in timers : t.button # b.id

\* the control of a block whose code child has no children was clicked
C23_Witness ==
    /\ lastEvent.kind = "click"
    /\ nextAct > 2
    /\ writes = {} /\ timers = {} /\ copied = {} /\ clipboard = <<>> /\ logged = 0
    /\ \E b \in EmptyBlockControls(NewContainers) :
           /\ b.id = lastEvent.button
           /\ \E c \in NewContainers :
                  c.children[2] = b /\ FirstCode(c.children[1]).children = <<>>

\* the order of the passes
ConfiguredOrder ==
    <<"remarkGfm", "rehypeHighlight", "rehypeSlug", "rehypeRaw", "rehypeCopyButton">>

(***************************************************************************)
(* C24: the passes run in the order remarkGfm, rehypeHighlight,            *)
(* rehypeSlug, rehypeRaw, rehypeCopyButton: the passes that have run are   *)
(* always a prefix of that list; the step that runs the injector comes     *)
(* after the four other passes and works on the tree the last of them left;*)
(* and once the injector has run no step changes the tree or runs a pass.  *)
(***************************************************************************)
C24_InjectorRunsLast ==
    [][/\ passes' = SubSeq(ConfiguredOrder, 1, Len(passes'))
       /\ passes' # passes =>
              /\ passes' = Append(passes, ConfiguredOrder[Len(passes) + 1])
              /\ "rehypeCopyButton" \notin Range(passes)
              /\ ConfiguredOrder[Len(passes) + 1] = "rehypeCopyButton" =>
                     /\ Len(passes) = Len(ConfiguredOrder) - 1
                     /\ prev' = tree
                     /\ runs' = runs + 1
       /\ "rehypeCopyButton" \in Range(passes) => (tree' = tree /\ passes' = passes)]_vars

\* all five passes have run and the injector wrapped a block of the final tree
C24_Witness ==
    /\ passes = ConfiguredOrder
    /\ runs = 1
    /\ NewContainers # {}

(***************************************************************************)
(* C25: after a run the root of the tree is the object that was the root   *)
(* before it, with the type and tag it had; and when that root is a pre    *)
(* element with a code child the run changes nothing, so the tree holds no *)
(* new container and no new copy control.                                  *)
(***************************************************************************)
C25_RootNeverReplaced ==
    runs >= 1 =>
        /\ tree.id = prev.id
        /\ tree.type = prev.type
        /\ tree.tagName = prev.tagName
        /\ PreWithCode(prev) =>
               /\ tree = prev
               /\ NewContainers = {}
               /\ NewControls = {}
               /\ \A n \in NodeSet(tree) : ~IsContainer(n) /\ ~IsCopyControl(n)

\* a run on a tree whose root is a pre with a code child and a nested block
C25_Witness ==
    /\ runs = 1
    /\ PreWithCode(prev)
    /\ \E n \in NodeSet(prev) : n.id # prev.id /\ PreWithCode(n)
    /\ tree = input

(***************************************************************************)
(* C26: a control gets the 'copied' class only in the step in which a      *)
(* clipboard write requested by a click on that control completes: the     *)
(* write was pending before the step and is not after it, and the          *)
(* clipboard then holds that control's text; so a control showing 'copied' *)
(* always has the timer of a completed write of its own outstanding.       *)
(***************************************************************************)
C26_CopiedOnlyAfterOwnWrite ==
    [][/\ \A b \in copied' \ copied :
              /\ lastEvent'.kind = "written"
              /\ lastEvent'.button = b
              /\ \E w \in writes \ writes' :
                     /\ w.button = b
                     /\ w.act = lastEvent'.act
                     /\ w.text = BlockText(NewContainers, b)
                     /\ clipboard' = <<w.text>>
       /\ \A b \in copied' : \E t \in timers' : t.button = b]_vars

\* a control shows 'copied' while a second write for the same control is pending
C26_Witness ==
    \E b \in copied :
        /\ \E w \in writes : w.button = b
        /\ clipboard = <<BlockText(NewContainers, b)>>
        /\ lastEvent.kind = "click"
        /\ lastEvent.button = b

(***************************************************************************)
(* C27: the mount step attaches the click handler to exactly the copy      *)
(* controls of the page; a click is handled only on a control that has the *)
(* handler, and it requests at most one clipboard write and withdraws      *)
(* none; the cleanup step removes every handler; and after the cleanup no  *)
(* click is handled and no clipboard write is requested.                   *)
(***************************************************************************)
C27_OneHandlerUntilCleanup ==
    [][/\ (mounted = "no" /\ mounted' = "yes") => listeners' = ControlIds
       /\ lastEvent'.kind = "click" =>
              /\ mounted = "yes"
              /\ lastEvent'.button \in listeners
              /\ writes \subseteq writes'
              /\ Cardinality(writes' \ writes) <= 1
       /\ mounted' = "cleaned" => listeners' = {}
       /\ mounted = "cleaned" =>
              /\ lastEvent'.kind # "click"
              /\ writes' \subseteq writes]_vars

\* a write requested before the cleanup completed after it; clicks were left over
C27_Witness ==
    /\ mounted = "cleaned"
    /\ listeners = {}
    /\ lastEvent.kind = "written"
    /\ nextAct = 2

\* ids of the frameworks of a post that are available
AvailableIds(post) ==
    {post.frameworks[k].id : k \in {j \in 1..Len(post.frameworks) : post.frameworks[j].available}}

\* the map has one entry per post, each the post's default or an available framework
WellFormedMap(map) ==
    /\ DOMAIN map = 1..Len(blogPosts)
    /\ \A i \in DOMAIN map :
           map[i] \in {blogPosts[i].defaultFramework} \cup AvailableIds(blogPosts[i])

(***************************************************************************)
(* C28: the active-framework map always has exactly one entry per post,    *)
(* each the post's defaultFramework or the id of an available framework of *)
(* the post; a tab click happens only on a post with more than one         *)
(* framework; a click on the tab of an unavailable framework does not call *)
(* onFrameworkChange and leaves the map as it is; and a click on a tab of  *)
(* one post leaves the entry of every other post unchanged.                *)
(***************************************************************************)
C28_ActiveFrameworksWellFormed ==
    /\ []WellFormedMap(activeFrameworks)
    /\ [][lastTab'.kind = "click" =>
              LET i == lastTab'.post IN
              /\ i \in 1..Len(blogPosts)
              /\ Len(blogPosts[i].frameworks) > 1
              /\ lastTab'.framework \notin AvailableIds(blogPosts[i]) =>
                     /\ ~lastTab'.called
                     /\ activeFrameworks' = activeFrameworks
              /\ lastTab'.called => activeFrameworks'[i] = lastTab'.framework
              /\ \A j \in DOMAIN activeFrameworks :
                     j # i => activeFrameworks'[j] = activeFrameworks[j]]_vars

\* two posts: the first moved to an available framework other than its default,
\* the second is still at a default that is not available
C28_Witness ==
    /\ Len(blogPosts) = 2
    /\ lastTab.kind = "click" /\ lastTab.post = 1 /\ lastTab.called
    /\ activeFrameworks[1] # blogPosts[1].defaultFramework
    /\ activeFrameworks[2] = blogPosts[2].defaultFramework
    /\ activeFrameworks[2] \notin AvailableIds(blogPosts[2])
    /\ TabsRendered(blogPosts[2])

====
